---- MODULE Spec2Model ----
(***************************************************************************)
(* Token ledger and incentive accrual of the AFJP contracts:               *)
(*   afjp_token      (src/unnamed/part_000)                                *)
(*   afjp_staking    (src/unnamed/part_001)                                *)
(*   juventud_token  (src/contracts/sources/juventud_token.move)           *)
(*   afjp_vesting    (src/contracts/sources/afjp_vesting.move)             *)
(*                                                                         *)
(* Every entry function f is one action, and f_abort is the abort code its *)
(* assertions give in the current state ("OK" when the call commits).  A   *)
(* Move transaction that aborts rolls back all of its writes, so an        *)
(* aborted call changes nothing.  The record `last` holds the transaction  *)
(* committed last.  u64 arithmetic aborts on overflow and underflow; the   *)
(* places where the bounded state can reach one carry an ARITHMETIC_ERROR  *)
(* branch.  Every holder has a registered CoinStore for both coins, as the *)
(* module tests arrange with coin::register.  An event handle is the       *)
(* sequence of the events emitted on it.                                   *)
(***************************************************************************)
EXTENDS Integers, FiniteSets, Sequences, TLC

VARIABLES
    token_caps,     \* addresses holding afjp_token::TokenCapabilities
    token_info,     \* afjp_token::TokenInfo stored under @afjp_crypto
    coin_balance,   \* coin::balance<AFJPToken> of every holder
    juv_caps,       \* addresses holding juventud_token::TokenCapabilities
    juv_info,       \* juventud_token::TokenInfo stored under @afjp_crypto
    juv_balance,    \* coin::balance<JuventudToken> of every holder
    burn_afjp_events,   \* juventud_token::TokenEvents.burn_afjp_events
    discount_system,    \* juventud_token::DiscountSystem stored under @afjp_crypto
    user_discount,      \* juventud_token::UserDiscountInfo, per holder
    pool,           \* afjp_staking::StakingPool, per address that initialized one
    staker,         \* afjp_staking::StakerInfo, per holder
    staking_events, \* afjp_staking::StakingEvents, the counter of each handle
    vesting_pool,   \* afjp_vesting::VestingPool, per address that initialized one
    schedule_created_events,  \* afjp_vesting::VestingEvents.schedule_created_events
    tokens_released_events,   \* afjp_vesting::VestingEvents.tokens_released_events
    now,            \* timestamp::now_seconds()
    last            \* the transaction committed last

tokenVars == <<token_caps, token_info, coin_balance>>
juvVars   == <<juv_caps, juv_info, juv_balance, burn_afjp_events,
               discount_system, user_discount>>
stakeVars == <<pool, staker, staking_events>>
vestVars  == <<vesting_pool, schedule_created_events, tokens_released_events>>
vars      == <<token_caps, token_info, coin_balance, juv_caps, juv_info,
               juv_balance, burn_afjp_events, discount_system, user_discount,
               pool, staker, staking_events, vesting_pool,
               schedule_created_events, tokens_released_events, now, last>>

----------------------------------------------------------------------------
(* Addresses *)

AFJP_CRYPTO == "@afjp_crypto"
USER1       == "0x123"
USER2       == "0x456"
NO_ADDRESS  == "none"
Holders     == {AFJP_CRYPTO, USER1, USER2}

(* Bounds of the model *)

MaxSupply      == 300     \* cap on total_supply in the ledger specification
MaxStakeSupply == 2000    \* cap on total_supply in the staking specifications
MaxTime        == 100     \* the clock stops here
MaxVestSupply  == 10000   \* cap on total_supply in the vesting specification
MaxVestYears   == 5       \* the clock of the vesting specification stops here
MaxSchedules   == 2       \* cap on the ScheduleCreatedEvents emitted
MaxReleases    == 2       \* cap on the TokensReleasedEvents emitted
TimeStep       == 50      \* seconds added by one tick
ScenarioRate   == 100     \* reward_rate_per_second stipulated by the staking scenarios
MaxStakingEvents == 5     \* cap on the events emitted by the staking module

LedgerAmounts == {0, 100, 200}
StakeAmounts  == {0, 1000}
Rates         == {0, 10, 20}
RentalAmounts == {0, 2000}
VestAmounts   == {0, 5000}
RewardAmounts == {0, 1000, 100000}
DiscountPercentages == {50, 60}

(* Program constants *)

AFJP_TO_JUVENTUD_RATE == 10
MIN_BURN_AMOUNT       == 100
MAX_DISCOUNT_PERCENTAGE == 50
SECONDS_PER_YEAR      == 31536000
BASE_APY              == 1200
MAX_APY               == 2500
MIN_STAKE_AMOUNT      == 100
REWARD_PRECISION      == 1000000
VESTING_DURATION_SECONDS == 157680000
CLIFF_DURATION_SECONDS   == 31536000

RECURSIVE SumOver(_, _)
SumOver(f, S) ==
    IF S = {} THEN 0
    ELSE LET x == CHOOSE y \in S : TRUE IN f[x] + SumOver(f, S \ {x})

(* The transaction committed last: the entry function, its signer, the other
   address and the amount it was about, and the signer's AFJP balance before it. *)
Call(op, caller, to, amount) ==
    [op |-> op, caller |-> caller, to |-> to, amount |-> amount,
     bal0 |-> coin_balance[caller]]

----------------------------------------------------------------------------
(* aptos_framework::coin, as the contracts use it *)

coin_deposit(bal, to, amount)    == [bal EXCEPT ![to] = @ + amount]
coin_withdraw(bal, from, amount) == [bal EXCEPT ![from] = @ - amount]
(* A transfer that credited the recipient without debiting the sender. *)
coin_transfer_without_debit(bal, from, to, amount) ==
    coin_deposit(bal, to, amount)

coin_transfer(bal, from, to, amount) ==
    coin_deposit(coin_withdraw(bal, from, amount), to, amount)

----------------------------------------------------------------------------
(* afjp_token *)

get_admin_address == AFJP_CRYPTO

get_balance(account) == coin_balance[account]

get_total_supply ==
    IF get_admin_address \in token_caps THEN token_info.total_supply ELSE 0

get_burned_amount ==
    IF get_admin_address \in token_caps THEN token_info.burned_amount ELSE 0

get_circulating_supply == get_total_supply - get_burned_amount

token_initialize_abort(admin) ==
    IF admin \in token_caps THEN "E_ALREADY_INITIALIZED"
    ELSE IF admin # AFJP_CRYPTO THEN "ECOIN_INFO_ADDRESS_MISMATCH"
    ELSE "OK"

token_initialize(admin) ==
    LET err == token_initialize_abort(admin) IN
    /\ last' = IF err = "OK" THEN Call("token_initialize", admin, admin, 0) ELSE last
    /\ IF err = "OK"
       THEN /\ token_caps' = token_caps \cup {admin}
            /\ token_info' = [total_supply |-> 0, burned_amount |-> 0, admin |-> admin]
       ELSE UNCHANGED <<token_caps, token_info>>
    /\ UNCHANGED <<coin_balance, juvVars, stakeVars, vestVars, now>>

mint_abort(admin, recipient, amount) ==
    IF admin \notin token_caps THEN "E_NOT_INITIALIZED"
    ELSE IF ~(amount > 0) THEN "E_INVALID_AMOUNT"
    ELSE IF token_info.admin # admin THEN "E_NOT_ADMIN"
    ELSE "OK"

mint_token_info(amount) ==
    [token_info EXCEPT !.total_supply = @ + amount]

mint(admin, recipient, amount) ==
    LET err == mint_abort(admin, recipient, amount) IN
    /\ last' = IF err = "OK" THEN Call("mint", admin, recipient, amount) ELSE last
    /\ IF err = "OK"
       THEN /\ coin_balance' = coin_deposit(coin_balance, recipient, amount)
            /\ token_info' = mint_token_info(amount)
       ELSE UNCHANGED <<coin_balance, token_info>>
    /\ UNCHANGED <<token_caps, juvVars, stakeVars, vestVars, now>>

burn_abort(account, amount) ==
    IF get_admin_address \notin token_caps THEN "E_NOT_INITIALIZED"
    ELSE IF ~(amount > 0) THEN "E_INVALID_AMOUNT"
    ELSE IF ~(coin_balance[account] >= amount) THEN "E_INSUFFICIENT_BALANCE"
    ELSE "OK"

(* A burn that took the amount off total_supply instead of counting it in
   burned_amount. *)
burn_lowering_supply(amount) ==
    [token_info EXCEPT !.total_supply = @ - amount]

burn_token_info(amount) ==
    [token_info EXCEPT !.burned_amount = @ + amount]

burn(account, amount) ==
    LET err == burn_abort(account, amount) IN
    /\ last' = IF err = "OK" THEN Call("burn", account, account, amount) ELSE last
    /\ IF err = "OK"
       THEN /\ coin_balance' = coin_withdraw(coin_balance, account, amount)
            /\ token_info' = burn_token_info(amount)
       ELSE UNCHANGED <<coin_balance, token_info>>
    /\ UNCHANGED <<token_caps, juvVars, stakeVars, vestVars, now>>

(* A transfer that checked the balance only. *)
transfer_abort_balance_only(from, to, amount) ==
    IF ~(coin_balance[from] >= amount) THEN "E_INSUFFICIENT_BALANCE"
    ELSE "OK"

transfer_abort(from, to, amount) ==
    IF ~(amount > 0) THEN "E_INVALID_AMOUNT"
    ELSE IF ~(coin_balance[from] >= amount) THEN "E_INSUFFICIENT_BALANCE"
    ELSE "OK"

transfer(from, to, amount) ==
    LET err == transfer_abort(from, to, amount) IN
    /\ last' = IF err = "OK" THEN Call("transfer", from, to, amount) ELSE last
    /\ IF err = "OK"
       THEN coin_balance' = coin_transfer(coin_balance, from, to, amount)
       ELSE UNCHANGED coin_balance
    /\ UNCHANGED <<token_caps, token_info, juvVars, stakeVars, vestVars, now>>

----------------------------------------------------------------------------
(* juventud_token *)

juv_initialize_abort(admin) ==
    IF admin \in juv_caps THEN "E_ALREADY_INITIALIZED"
    ELSE IF admin # AFJP_CRYPTO THEN "ECOIN_INFO_ADDRESS_MISMATCH"
    ELSE "OK"

juv_initialize(admin) ==
    LET err == juv_initialize_abort(admin) IN
    /\ last' = IF err = "OK" THEN Call("juv_initialize", admin, admin, 0) ELSE last
    /\ IF err = "OK"
       THEN /\ juv_caps' = juv_caps \cup {admin}
            /\ juv_info' = [total_supply |-> 0, total_burned |-> 0,
                            total_afjp_burned |-> 0, admin |-> admin,
                            exchange_rate |-> AFJP_TO_JUVENTUD_RATE]
            /\ discount_system' = [exists |-> TRUE, base_discount_rate |-> 1000,
                                   max_discount_per_transaction |-> 500000,
                                   total_discounts_applied |-> 0]
       ELSE UNCHANGED <<juv_caps, juv_info, discount_system>>
    /\ UNCHANGED <<juv_balance, burn_afjp_events, user_discount,
                   tokenVars, stakeVars, vestVars, now>>

calculate_juventud_for_afjp(afjp_amount) ==
    IF get_admin_address \notin juv_caps THEN 0
    ELSE afjp_amount * juv_info.exchange_rate

burn_afjp_for_juventud_abort(user, afjp_amount) ==
    IF ~(afjp_amount >= MIN_BURN_AMOUNT) THEN "E_INVALID_AMOUNT"
    ELSE IF ~(get_balance(user) >= afjp_amount) THEN "E_INSUFFICIENT_AFJP_BALANCE"
    ELSE IF get_admin_address \notin juv_caps THEN "E_NOT_INITIALIZED"
    ELSE burn_abort(user, afjp_amount)

(* A conversion that forgot the exchange rate. *)
juventud_amount_flat(afjp_amount) == afjp_amount

juventud_amount(afjp_amount) == afjp_amount * juv_info.exchange_rate

(* A BurnAFJPEvent that priced the conversion at the rate the token started
   with instead of the stored one. *)
burn_afjp_event_at_base_rate(user, afjp_amount) ==
    [user |-> user, afjp_amount |-> afjp_amount,
     juventud_received |-> afjp_amount * AFJP_TO_JUVENTUD_RATE, timestamp |-> now]

burn_afjp_event(user, afjp_amount) ==
    [user |-> user, afjp_amount |-> afjp_amount,
     juventud_received |-> juventud_amount(afjp_amount), timestamp |-> now]

burn_afjp_for_juventud(user, afjp_amount) ==
    LET err == burn_afjp_for_juventud_abort(user, afjp_amount) IN
    /\ last' = IF err = "OK" THEN Call("burn_afjp_for_juventud", user, user, afjp_amount) ELSE last
    /\ IF err = "OK"
       THEN /\ coin_balance' = coin_withdraw(coin_balance, user, afjp_amount)
            /\ token_info' = burn_token_info(afjp_amount)
            /\ juv_balance' = coin_deposit(juv_balance, user, juventud_amount(afjp_amount))
            /\ juv_info' = [juv_info EXCEPT
                               !.total_supply = @ + juventud_amount(afjp_amount),
                               !.total_afjp_burned = @ + afjp_amount]
            /\ burn_afjp_events' =
                   Append(burn_afjp_events, burn_afjp_event(user, afjp_amount))
       ELSE UNCHANGED <<coin_balance, token_info, juv_balance, juv_info,
                        burn_afjp_events>>
    /\ UNCHANGED <<token_caps, juv_caps, discount_system, user_discount,
                   stakeVars, vestVars, now>>

discount_amount(rental_amount, discount_percentage) ==
    (rental_amount * discount_percentage) \div 100

apply_rental_discount_abort(user, rental_amount, discount_percentage) ==
    IF ~(rental_amount > 0) THEN "E_INVALID_AMOUNT"
    ELSE IF ~(discount_percentage > 0 /\ discount_percentage <= MAX_DISCOUNT_PERCENTAGE)
         THEN "E_INVALID_DISCOUNT_AMOUNT"
    ELSE IF ~discount_system.exists THEN "E_NOT_INITIALIZED"
    ELSE IF ~(discount_amount(rental_amount, discount_percentage)
                  <= discount_system.max_discount_per_transaction)
         THEN "E_INVALID_DISCOUNT_AMOUNT"
    ELSE IF ~(juv_balance[user] >= discount_amount(rental_amount, discount_percentage))
         THEN "E_INSUFFICIENT_JUVENTUD_BALANCE"
    ELSE "OK"

discount_info(u, amount) ==
    IF ~u.exists
    THEN [exists |-> TRUE, total_discounts_used |-> amount,
          last_discount_time |-> now, discount_tier |-> 0]
    ELSE LET used == u.total_discounts_used + amount IN
         [u EXCEPT !.total_discounts_used = used,
                   !.last_discount_time = now,
                   !.discount_tier = IF used >= 100000 THEN 2
                                     ELSE IF used >= 50000 THEN 1 ELSE @]

apply_rental_discount(user, rental_amount, discount_percentage) ==
    LET err == apply_rental_discount_abort(user, rental_amount, discount_percentage)
        required_juventud == discount_amount(rental_amount, discount_percentage)
    IN
    /\ last' = IF err = "OK"
                THEN Call("apply_rental_discount", user, user, required_juventud)
                ELSE last
    /\ IF err = "OK"
       THEN /\ juv_balance' = coin_withdraw(juv_balance, user, required_juventud)
            /\ user_discount' = [user_discount EXCEPT ![user] =
                                     discount_info(user_discount[user], required_juventud)]
            /\ discount_system' = [discount_system EXCEPT
                                       !.total_discounts_applied = @ + required_juventud]
       ELSE UNCHANGED <<juv_balance, user_discount, discount_system>>
    /\ UNCHANGED <<juv_caps, juv_info, burn_afjp_events, tokenVars, stakeVars,
                   vestVars, now>>

(* An update_exchange_rate without the assertion on new_rate. *)
update_exchange_rate_abort_any_rate(admin, new_rate) ==
    IF admin \notin juv_caps THEN "E_NOT_INITIALIZED"
    ELSE IF juv_info.admin # admin THEN "E_NOT_ADMIN"
    ELSE "OK"

update_exchange_rate_abort(admin, new_rate) ==
    IF admin \notin juv_caps THEN "E_NOT_INITIALIZED"
    ELSE IF juv_info.admin # admin THEN "E_NOT_ADMIN"
    ELSE IF ~(new_rate > 0) THEN "E_INVALID_AMOUNT"
    ELSE "OK"

update_exchange_rate(admin, new_rate) ==
    LET err == update_exchange_rate_abort(admin, new_rate) IN
    /\ last' = IF err = "OK" THEN Call("update_exchange_rate", admin, admin, new_rate) ELSE last
    /\ IF err = "OK"
       THEN juv_info' = [juv_info EXCEPT !.exchange_rate = new_rate]
       ELSE UNCHANGED juv_info
    /\ UNCHANGED <<juv_caps, juv_balance, burn_afjp_events, discount_system,
                   user_discount, tokenVars, stakeVars, vestVars, now>>

----------------------------------------------------------------------------
(* afjp_staking *)

(* x / (c * d) in u64 arithmetic.  TLC's integers are 32 bits wide and the
   divisors of the source (10000 * SECONDS_PER_YEAR, total_staked *
   SECONDS_PER_YEAR) are not, so the quotient is taken in two steps:
   floor(x / (c * d)) = floor(floor(x / c) / d) for positive c and d. *)
DivByProduct(x, c, d) == (x \div c) \div d

BASIS_POINTS == 10000

(* (BASE_APY * REWARD_PRECISION) / (10000 * SECONDS_PER_YEAR) *)
InitialRewardRate ==
    DivByProduct(BASE_APY * REWARD_PRECISION, BASIS_POINTS, SECONDS_PER_YEAR)

(* (MAX_APY * REWARD_PRECISION) / (10000 * SECONDS_PER_YEAR); the factor
   10000 divides REWARD_PRECISION and is cancelled before multiplying. *)
MaxRewardRate ==
    (MAX_APY * (REWARD_PRECISION \div BASIS_POINTS)) \div SECONDS_PER_YEAR

NewPool(admin, rate) ==
    [exists |-> TRUE, total_staked |-> 0, total_rewards_distributed |-> 0,
     reward_rate_per_second |-> rate, last_update_time |-> now,
     accumulated_reward_per_token |-> 0, admin |-> admin,
     is_active |-> TRUE, total_stakers |-> 0]

NewStakingEvents ==
    [stake_events |-> 0, unstake_events |-> 0, claim_events |-> 0]

(* event::emit_event on one handle of the StakingEvents under @afjp_crypto. *)
emit_staking_event(handle) ==
    [staking_events EXCEPT ![AFJP_CRYPTO][handle] = @ + 1]

staking_initialize_abort(admin) ==
    IF pool[admin].exists THEN "E_ALREADY_INITIALIZED" ELSE "OK"

staking_initialize(admin) ==
    LET err == staking_initialize_abort(admin) IN
    /\ last' = IF err = "OK" THEN Call("staking_initialize", admin, admin, 0) ELSE last
    /\ IF err = "OK"
       THEN /\ pool' = [pool EXCEPT ![admin] = NewPool(admin, InitialRewardRate)]
            /\ staking_events' = [staking_events EXCEPT ![admin] = NewStakingEvents]
       ELSE UNCHANGED <<pool, staking_events>>
    /\ UNCHANGED <<staker, tokenVars, juvVars, vestVars, now>>

(* An update that stored the increment over the accumulator instead of
   adding it. *)
reward_per_token_overwritten(p) ==
    IF p.total_staked > 0 /\ now > p.last_update_time
    THEN (now - p.last_update_time) * p.reward_rate_per_second
    ELSE 0

(* accumulated_reward_per_token with the increment for the time since
   last_update_time added, as update_pool_rewards and calculate_rewards both
   compute it. *)
accumulated_after(p) ==
    IF p.total_staked > 0 /\ now > p.last_update_time
    THEN p.accumulated_reward_per_token
             + (now - p.last_update_time) * p.reward_rate_per_second
    ELSE p.accumulated_reward_per_token

update_pool_rewards(p) ==
    IF ~p.exists THEN p
    ELSE [p EXCEPT !.accumulated_reward_per_token = accumulated_after(p),
                   !.last_update_time = now]

(* A calculate_rewards that read the stored accumulator without projecting
   it to now. *)
pending_unprojected(p, s) ==
    (s.staked_amount * (p.accumulated_reward_per_token - s.user_reward_per_token_paid))
        \div REWARD_PRECISION

pending_reward(p, s) ==
    (s.staked_amount * (accumulated_after(p) - s.user_reward_per_token_paid))
        \div REWARD_PRECISION

calculate_rewards(user) ==
    IF ~staker[user].exists THEN 0
    ELSE IF ~pool[get_admin_address].exists THEN 0
    ELSE pending_reward(pool[get_admin_address], staker[user])

stake_tokens_abort(user, amount) ==
    IF ~(amount >= MIN_STAKE_AMOUNT) THEN "E_INVALID_AMOUNT"
    ELSE IF ~(get_balance(user) >= amount) THEN "E_INSUFFICIENT_BALANCE"
    ELSE IF ~pool[get_admin_address].exists THEN "E_NOT_INITIALIZED"
    ELSE IF ~pool[get_admin_address].is_active THEN "E_POOL_NOT_ACTIVE"
    ELSE "OK"

staked_info(s, p, amount) ==
    IF ~s.exists
    THEN [exists |-> TRUE, staked_amount |-> amount, reward_debt |-> 0,
          last_stake_time |-> now, total_rewards_claimed |-> 0,
          user_reward_per_token_paid |-> p.accumulated_reward_per_token]
    ELSE [s EXCEPT !.staked_amount = @ + amount,
                   !.last_stake_time = now,
                   !.user_reward_per_token_paid = p.accumulated_reward_per_token]

stake_tokens(user, amount) ==
    LET err == stake_tokens_abort(user, amount)
        p   == update_pool_rewards(pool[get_admin_address])
    IN
    /\ last' = IF err = "OK" THEN Call("stake_tokens", user, get_admin_address, amount) ELSE last
    /\ IF err = "OK"
       THEN /\ coin_balance' = coin_transfer(coin_balance, user, get_admin_address, amount)
            /\ staker' = [staker EXCEPT ![user] = staked_info(staker[user], p, amount)]
            /\ pool' = [pool EXCEPT ![get_admin_address] =
                           [p EXCEPT !.total_stakers =
                                         IF staker[user].exists THEN @ ELSE @ + 1,
                                     !.total_staked = @ + amount]]
            /\ staking_events' = emit_staking_event("stake_events")
       ELSE UNCHANGED <<coin_balance, staker, pool, staking_events>>
    /\ UNCHANGED <<token_caps, token_info, juvVars, vestVars, now>>

unstake_tokens_abort(user, amount) ==
    IF ~(amount > 0) THEN "E_INVALID_AMOUNT"
    ELSE IF ~staker[user].exists THEN "E_INSUFFICIENT_STAKED"
    ELSE IF ~(staker[user].staked_amount >= amount) THEN "E_INSUFFICIENT_STAKED"
    ELSE IF staker[user].staked_amount - amount = 0
            /\ pool[get_admin_address].total_stakers = 0 THEN "ARITHMETIC_ERROR"
    ELSE "OK"

(* An unstake that moved the checkpoint but left staked_amount as it was. *)
unstaked_info_keeping_stake(s, p, amount) ==
    [s EXCEPT !.user_reward_per_token_paid = p.accumulated_reward_per_token]

unstaked_info(s, p, amount) ==
    [s EXCEPT !.staked_amount = @ - amount,
              !.user_reward_per_token_paid = p.accumulated_reward_per_token]

(* What unstake_tokens does to the coin balances: the transfer back to the
   user is a comment in the source (lines 178-180), not a call. *)
unstake_balances(bal, user, amount) == bal

unstake_tokens(user, amount) ==
    LET err == unstake_tokens_abort(user, amount)
        p   == update_pool_rewards(pool[get_admin_address])
    IN
    /\ last' = IF err = "OK" THEN Call("unstake_tokens", user, user, amount) ELSE last
    /\ IF err = "OK"
       THEN /\ staker' = [staker EXCEPT ![user] = unstaked_info(staker[user], p, amount)]
            /\ pool' = [pool EXCEPT ![get_admin_address] =
                           [p EXCEPT !.total_stakers =
                                         IF staker[user].staked_amount - amount = 0
                                         THEN @ - 1 ELSE @,
                                     !.total_staked = @ - amount]]
            /\ coin_balance' = unstake_balances(coin_balance, user, amount)
            /\ staking_events' = emit_staking_event("unstake_events")
       ELSE UNCHANGED <<coin_balance, staker, pool, staking_events>>
    /\ UNCHANGED <<token_caps, token_info, juvVars, vestVars, now>>

(* reward_amount of claim_rewards_internal: calculate_rewards read after
   update_pool_rewards has run. *)
claim_reward_amount(user) ==
    IF ~pool[get_admin_address].exists THEN 0
    ELSE pending_reward(update_pool_rewards(pool[get_admin_address]), staker[user])

claim_rewards_abort(user) ==
    IF ~staker[user].exists THEN "E_NO_REWARDS"
    ELSE IF ~(claim_reward_amount(user) > 0) THEN "E_NO_REWARDS"
    ELSE "OK"

claimed_info(s, p, reward_amount) ==
    [s EXCEPT !.total_rewards_claimed = @ + reward_amount,
              !.user_reward_per_token_paid = p.accumulated_reward_per_token]

claim_rewards(user) ==
    LET err == claim_rewards_abort(user)
        p   == update_pool_rewards(pool[get_admin_address])
        reward_amount == claim_reward_amount(user)
    IN
    /\ last' = IF err = "OK" THEN Call("claim_rewards", user, user, reward_amount)
                ELSE last
    /\ IF err = "OK"
       THEN /\ staker' = [staker EXCEPT ![user] = claimed_info(staker[user], p, reward_amount)]
            /\ pool' = [pool EXCEPT ![get_admin_address] =
                           [p EXCEPT !.total_rewards_distributed = @ + reward_amount]]
            /\ staking_events' = emit_staking_event("claim_events")
       ELSE UNCHANGED <<staker, pool, staking_events>>
    /\ UNCHANGED <<tokenVars, juvVars, vestVars, now>>

add_rewards_abort(admin, amount) ==
    IF ~pool[admin].exists THEN "E_NOT_INITIALIZED"
    ELSE IF pool[admin].admin # admin THEN "E_NOT_ADMIN"
    ELSE "OK"

(* (amount * REWARD_PRECISION) / (total_staked * SECONDS_PER_YEAR); the factor
   1000 that REWARD_PRECISION and SECONDS_PER_YEAR share is cancelled before
   multiplying, which leaves the quotient as it is. *)
additional_rate(p, amount) ==
    DivByProduct(amount * (REWARD_PRECISION \div 1000), p.total_staked,
                 SECONDS_PER_YEAR \div 1000)

(* An add_rewards without the cap at the maximal rate. *)
added_rate_uncapped(p, amount) ==
    IF p.total_staked > 0
    THEN p.reward_rate_per_second + additional_rate(p, amount)
    ELSE p.reward_rate_per_second

added_rate(p, amount) ==
    IF p.total_staked > 0
    THEN LET raised == p.reward_rate_per_second + additional_rate(p, amount)
         IN IF raised > MaxRewardRate THEN MaxRewardRate ELSE raised
    ELSE p.reward_rate_per_second

add_rewards(admin, amount) ==
    LET err == add_rewards_abort(admin, amount) IN
    /\ last' = IF err = "OK" THEN Call("add_rewards", admin, admin, amount) ELSE last
    /\ IF err = "OK"
       THEN pool' = [pool EXCEPT ![admin].reward_rate_per_second =
                                     added_rate(pool[admin], amount)]
       ELSE UNCHANGED pool
    /\ UNCHANGED <<staker, staking_events, tokenVars, juvVars, vestVars, now>>

----------------------------------------------------------------------------
(* afjp_vesting *)

vesting_initialize_abort(admin) ==
    IF vesting_pool[admin].exists THEN "E_ALREADY_INITIALIZED" ELSE "OK"

vesting_initialize(admin) ==
    LET err == vesting_initialize_abort(admin) IN
    /\ last' = IF err = "OK" THEN Call("vesting_initialize", admin, admin, 0) ELSE last
    /\ IF err = "OK"
       THEN vesting_pool' = [vesting_pool EXCEPT ![admin] =
                                [exists |-> TRUE, total_vested |-> 0,
                                 total_released |-> 0, admin |-> admin,
                                 schedule_count |-> 0]]
       ELSE UNCHANGED vesting_pool
    /\ UNCHANGED <<schedule_created_events, tokens_released_events,
                   tokenVars, juvVars, stakeVars, now>>

create_vesting_schedule_abort(creator, beneficiary, amount) ==
    IF ~(amount > 0) THEN "E_INVALID_AMOUNT"
    ELSE IF ~vesting_pool[get_admin_address].exists THEN "E_NOT_INITIALIZED"
    ELSE IF ~(get_balance(creator) >= amount) THEN "E_INSUFFICIENT_BALANCE"
    ELSE "OK"

schedule_created_event(creator, beneficiary, amount) ==
    [beneficiary |-> beneficiary, amount |-> amount, start_time |-> now,
     cliff_time |-> now + CLIFF_DURATION_SECONDS,
     end_time |-> now + VESTING_DURATION_SECONDS, creator |-> creator]

create_vesting_schedule(creator, beneficiary, amount) ==
    LET err == create_vesting_schedule_abort(creator, beneficiary, amount) IN
    /\ last' = IF err = "OK"
                THEN Call("create_vesting_schedule", creator, beneficiary, amount)
                ELSE last
    /\ IF err = "OK"
       THEN /\ coin_balance' =
                   coin_transfer(coin_balance, creator, get_admin_address, amount)
            /\ vesting_pool' = [vesting_pool EXCEPT ![get_admin_address] =
                                    [@ EXCEPT !.total_vested = @ + amount,
                                              !.schedule_count = @ + 1]]
            /\ schedule_created_events' =
                   Append(schedule_created_events,
                          schedule_created_event(creator, beneficiary, amount))
       ELSE UNCHANGED <<coin_balance, vesting_pool, schedule_created_events>>
    /\ UNCHANGED <<token_caps, token_info, tokens_released_events,
                   juvVars, stakeVars, now>>

(* borrow_global_mut<VestingPool> aborts when the resource is missing *)
release_vested_tokens_abort(beneficiary) ==
    IF ~vesting_pool[get_admin_address].exists THEN "MISSING_DATA" ELSE "OK"

(* A TokensReleasedEvent that reported everything the pool holds as released. *)
tokens_released_event_whole_pool(beneficiary) ==
    [beneficiary |-> beneficiary,
     amount |-> vesting_pool[get_admin_address].total_vested, timestamp |-> now,
     total_released |-> vesting_pool[get_admin_address].total_vested]

tokens_released_event(beneficiary) ==
    [beneficiary |-> beneficiary, amount |-> 0, timestamp |-> now,
     total_released |-> 0]

release_vested_tokens(beneficiary) ==
    LET err == release_vested_tokens_abort(beneficiary) IN
    /\ last' = IF err = "OK"
                THEN Call("release_vested_tokens", beneficiary, beneficiary, 0)
                ELSE last
    /\ IF err = "OK"
       THEN tokens_released_events' =
                Append(tokens_released_events, tokens_released_event(beneficiary))
       ELSE UNCHANGED tokens_released_events
    /\ UNCHANGED <<vesting_pool, schedule_created_events,
                   tokenVars, juvVars, stakeVars, now>>

calculate_vested_amount(beneficiary) == 0

get_vesting_info(beneficiary) == <<0, 0, 0, 0, 0, 0>>

get_pool_stats ==
    IF ~vesting_pool[get_admin_address].exists THEN <<0, 0, 0>>
    ELSE <<vesting_pool[get_admin_address].total_vested,
           vesting_pool[get_admin_address].total_released,
           vesting_pool[get_admin_address].schedule_count>>

has_vesting_schedule(beneficiary) == FALSE

get_releasable_amount(beneficiary) == 0

(* The module declares ScheduleRevokedEvent and its event handle, but none of
   its functions revokes a schedule or emits that event: a transaction that
   names a revoke entry function does not resolve, and changes nothing. *)
revoke_vesting_abort(admin, beneficiary) == "FUNCTION_RESOLUTION_FAILURE"

revoke_vesting(admin, beneficiary) ==
    /\ revoke_vesting_abort(admin, beneficiary) # "OK"
    /\ UNCHANGED vars

----------------------------------------------------------------------------
(* The clock of the chain *)
year_tick ==
    /\ now + CLIFF_DURATION_SECONDS <= MaxVestYears * CLIFF_DURATION_SECONDS
    /\ now' = now + CLIFF_DURATION_SECONDS
    /\ last' = Call("tick", AFJP_CRYPTO, AFJP_CRYPTO, CLIFF_DURATION_SECONDS)
    /\ UNCHANGED <<tokenVars, juvVars, stakeVars, vestVars>>

tick ==
    /\ now + TimeStep <= MaxTime
    /\ now' = now + TimeStep
    /\ last' = Call("tick", AFJP_CRYPTO, AFJP_CRYPTO, TimeStep)
    /\ UNCHANGED <<tokenVars, juvVars, stakeVars, vestVars>>

----------------------------------------------------------------------------
(* Specification of the ledger and the exchange *)

NoTokenInfo == [total_supply |-> 0, burned_amount |-> 0, admin |-> NO_ADDRESS]
NoJuvInfo   == [total_supply |-> 0, total_burned |-> 0, total_afjp_burned |-> 0,
                admin |-> NO_ADDRESS, exchange_rate |-> 0]
NoPool      == [exists |-> FALSE, total_staked |-> 0, total_rewards_distributed |-> 0,
                reward_rate_per_second |-> 0, last_update_time |-> 0,
                accumulated_reward_per_token |-> 0, admin |-> NO_ADDRESS,
                is_active |-> FALSE, total_stakers |-> 0]
NoStaker    == [exists |-> FALSE, staked_amount |-> 0, reward_debt |-> 0,
                last_stake_time |-> 0, total_rewards_claimed |-> 0,
                user_reward_per_token_paid |-> 0]
NoDiscountSystem == [exists |-> FALSE, base_discount_rate |-> 0,
                     max_discount_per_transaction |-> 0,
                     total_discounts_applied |-> 0]
NoUserDiscount   == [exists |-> FALSE, total_discounts_used |-> 0,
                     last_discount_time |-> 0, discount_tier |-> 0]
NoVestingPool    == [exists |-> FALSE, total_vested |-> 0, total_released |-> 0,
                     admin |-> NO_ADDRESS, schedule_count |-> 0]

Init ==
    /\ token_caps = {}
    /\ token_info = NoTokenInfo
    /\ coin_balance = [h \in Holders |-> 0]
    /\ juv_caps = {}
    /\ juv_info = NoJuvInfo
    /\ juv_balance = [h \in Holders |-> 0]
    /\ burn_afjp_events = <<>>
    /\ discount_system = NoDiscountSystem
    /\ user_discount = [h \in Holders |-> NoUserDiscount]
    /\ vesting_pool = [h \in Holders |-> NoVestingPool]
    /\ schedule_created_events = <<>>
    /\ tokens_released_events = <<>>
    /\ pool = [h \in Holders |-> NoPool]
    /\ staker = [h \in Holders |-> NoStaker]
    /\ staking_events = [h \in Holders |-> NewStakingEvents]
    /\ now = 0
    /\ last = [op |-> "none", caller |-> NO_ADDRESS, to |-> NO_ADDRESS,
               amount |-> 0, bal0 |-> 0]

TokenInitialize == \E a \in Holders : token_initialize(a)

Mint ==
    \E a \in Holders, r \in Holders, n \in LedgerAmounts :
        /\ token_info.total_supply + n <= MaxSupply
        /\ mint(a, r, n)

Burn == \E a \in Holders, n \in LedgerAmounts : burn(a, n)

Transfer == \E a \in Holders, r \in Holders, n \in LedgerAmounts : transfer(a, r, n)

JuvInitialize == \E a \in Holders : juv_initialize(a)

BurnAfjpForJuventud ==
    \E a \in Holders, n \in LedgerAmounts : burn_afjp_for_juventud(a, n)

UpdateExchangeRate == \E a \in Holders, r \in Rates : update_exchange_rate(a, r)

ApplyRentalDiscount ==
    \E a \in Holders, n \in RentalAmounts, d \in DiscountPercentages :
        apply_rental_discount(a, n, d)

Next ==
    \/ TokenInitialize
    \/ Mint
    \/ Burn
    \/ Transfer
    \/ JuvInitialize
    \/ BurnAfjpForJuventud
    \/ UpdateExchangeRate
    \/ ApplyRentalDiscount

Spec == Init /\ [][Next]_vars

----------------------------------------------------------------------------
(* Specifications of the staking pool.  SpecStaking starts before any
   initialize; SpecRate starts from an initialized system whose pool pays
   ScenarioRate per second, the pool state the staking scenarios stipulate. *)

(* stake_tokens, unstake_tokens and claim_rewards read the pool stored under
   @afjp_crypto only; the staking specifications initialize that one. *)
PoolAdmins == {AFJP_CRYPTO}

(* The number of events the staking module has emitted so far. *)
StakingEventCount ==
    SumOver([h \in Holders |-> staking_events[h].stake_events
                                 + staking_events[h].unstake_events
                                 + staking_events[h].claim_events], Holders)

StakingInitialize == \E a \in PoolAdmins : staking_initialize(a)

MintStake ==
    \E r \in Holders, n \in StakeAmounts :
        /\ token_info.total_supply + n <= MaxStakeSupply
        /\ mint(AFJP_CRYPTO, r, n)

(* A stake by @afjp_crypto transfers to itself, so it can be repeated without
   end: the staked total is capped with the supply, and the event counters
   with MaxStakingEvents. *)
StakeTokens ==
    \E a \in Holders, n \in StakeAmounts :
        /\ pool[get_admin_address].total_staked + n <= MaxStakeSupply
        /\ StakingEventCount < MaxStakingEvents
        /\ stake_tokens(a, n)

UnstakeTokens ==
    \E a \in Holders, n \in StakeAmounts :
        /\ StakingEventCount < MaxStakingEvents
        /\ unstake_tokens(a, n)

ClaimRewards ==
    \E a \in Holders :
        /\ StakingEventCount < MaxStakingEvents
        /\ claim_rewards(a)

AddRewards == \E a \in Holders, n \in RewardAmounts : add_rewards(a, n)

Tick == tick

NextStaking ==
    \/ TokenInitialize
    \/ StakingInitialize
    \/ MintStake
    \/ StakeTokens
    \/ UnstakeTokens
    \/ ClaimRewards
    \/ AddRewards
    \/ Tick

SpecStaking == Init /\ [][NextStaking]_vars

InitRate ==
    /\ token_caps = {AFJP_CRYPTO}
    /\ token_info = [total_supply |-> 0, burned_amount |-> 0, admin |-> AFJP_CRYPTO]
    /\ coin_balance = [h \in Holders |-> 0]
    /\ juv_caps = {}
    /\ juv_info = NoJuvInfo
    /\ juv_balance = [h \in Holders |-> 0]
    /\ burn_afjp_events = <<>>
    /\ discount_system = NoDiscountSystem
    /\ user_discount = [h \in Holders |-> NoUserDiscount]
    /\ vesting_pool = [h \in Holders |-> NoVestingPool]
    /\ schedule_created_events = <<>>
    /\ tokens_released_events = <<>>
    /\ now = 0
    /\ pool = [h \in Holders |->
                  IF h = AFJP_CRYPTO THEN NewPool(AFJP_CRYPTO, ScenarioRate) ELSE NoPool]
    /\ staker = [h \in Holders |-> NoStaker]
    /\ staking_events = [h \in Holders |-> NewStakingEvents]
    /\ last = [op |-> "none", caller |-> NO_ADDRESS, to |-> NO_ADDRESS,
               amount |-> 0, bal0 |-> 0]

SpecRate == InitRate /\ [][NextStaking]_vars

----------------------------------------------------------------------------
(* Specification of the vesting pool, with the clock moving a year at a time *)

(* The signers of test_create_vesting_schedule_basic *)
VestCreators      == {USER1}
VestBeneficiaries == {USER2}

VestingInitialize == \E a \in PoolAdmins : vesting_initialize(a)

MintVest ==
    \E r \in VestCreators, n \in VestAmounts :
        /\ token_info.total_supply + n <= MaxVestSupply
        /\ mint(AFJP_CRYPTO, r, n)

CreateVestingSchedule ==
    \E c \in VestCreators, b \in VestBeneficiaries, n \in VestAmounts :
        /\ Len(schedule_created_events) < MaxSchedules
        /\ create_vesting_schedule(c, b, n)

ReleaseVestedTokens ==
    \E b \in VestBeneficiaries :
        /\ Len(tokens_released_events) < MaxReleases
        /\ release_vested_tokens(b)

RevokeVesting ==
    \E a \in Holders, b \in VestBeneficiaries : revoke_vesting(a, b)

YearTick == year_tick

NextVesting ==
    \/ TokenInitialize
    \/ VestingInitialize
    \/ MintVest
    \/ CreateVestingSchedule
    \/ ReleaseVestedTokens
    \/ RevokeVesting
    \/ YearTick

SpecVesting == Init /\ [][NextVesting]_vars

----------------------------------------------------------------------------
(* Specification of custody: the staking pool and the vesting pool both keep
   what they hold in the coin store of @afjp_crypto, next to the ordinary
   transfers and burns of every holder *)

CustodyCreateVesting ==
    \E c \in VestCreators, b \in VestBeneficiaries, n \in StakeAmounts :
        /\ Len(schedule_created_events) < MaxSchedules
        /\ create_vesting_schedule(c, b, n)

CustodyTransfer ==
    \E from \in Holders, to \in Holders, n \in StakeAmounts : transfer(from, to, n)

CustodyBurn == \E a \in Holders, n \in StakeAmounts : burn(a, n)

NextCustody ==
    \/ TokenInitialize
    \/ StakingInitialize
    \/ VestingInitialize
    \/ MintStake
    \/ StakeTokens
    \/ UnstakeTokens
    \/ CustodyCreateVesting
    \/ ReleaseVestedTokens
    \/ CustodyTransfer
    \/ CustodyBurn

SpecCustody == Init /\ [][NextCustody]_vars

----------------------------------------------------------------------------
(* Specification of initialization and the admin-only functions, with every
   holder as a possible signer of every initialize *)

StakingInitializeAny == \E a \in Holders : staking_initialize(a)

VestingInitializeAny == \E a \in Holders : vesting_initialize(a)

NextAuthority ==
    \/ TokenInitialize
    \/ JuvInitialize
    \/ StakingInitializeAny
    \/ VestingInitializeAny
    \/ MintStake
    \/ StakeTokens
    \/ UpdateExchangeRate
    \/ AddRewards

SpecAuthority == Init /\ [][NextAuthority]_vars

----------------------------------------------------------------------------
(* Claims about the ledger and the exchange, checked under Spec *)

Initialized == get_admin_address \in token_caps

SupplyConserved ==
    /\ SumOver(coin_balance, Holders) = token_info.total_supply - token_info.burned_amount
    /\ SumOver(coin_balance, Holders) = get_circulating_supply

(* C1: after any sequence of mint, burn and transfer calls the holder
   balances sum to total_supply minus burned_amount, which is what
   get_circulating_supply reports, and a burn never changes total_supply. *)
C1_SupplyConservation ==
    /\ SupplyConserved
    /\ [][/\ SupplyConserved'
          /\ last'.op \in {"burn", "burn_afjp_for_juventud"}
                 => token_info'.total_supply = token_info.total_supply]_vars

(* A burn has just committed after a transfer left two holders with tokens. *)
C1_Witness ==
    /\ last.op = "burn"
    /\ token_info.burned_amount > 0
    /\ token_info.total_supply > token_info.burned_amount
    /\ coin_balance[USER1] > 0
    /\ coin_balance[USER2] > 0

(* C2: with the token initialized, a mint by any caller other than the stored
   admin aborts with E_NOT_ADMIN (Unauthorized), whatever came before; an
   aborted call changes nothing. *)
C2_NonAdminMintUnauthorized ==
    Initialized =>
        \A caller \in Holders \ {token_info.admin}, r \in Holders, n \in LedgerAmounts :
            mint_abort(caller, r, n) = "E_NOT_ADMIN"

(* C3: a committed burn_afjp_for_juventud(h, a) has a >= MIN_BURN_AMOUNT and
   balance(h) >= a, and in that one step takes a from h's AFJP balance, adds a
   to burned_amount and to total_afjp_burned, adds a * exchange_rate to h's
   JUVENTUD balance and to the JUVENTUD total_supply, and changes nothing else. *)
C3_ConvertExact ==
    [][(last'.op = "burn_afjp_for_juventud") =>
          LET h == last'.caller
              a == last'.amount
              minted == a * juv_info.exchange_rate
          IN /\ a >= MIN_BURN_AMOUNT
             /\ coin_balance[h] >= a
             /\ coin_balance' = [coin_balance EXCEPT ![h] = @ - a]
             /\ token_info' = [token_info EXCEPT !.burned_amount = @ + a]
             /\ juv_balance' = [juv_balance EXCEPT ![h] = @ + minted]
             /\ juv_info' = [juv_info EXCEPT !.total_supply = @ + minted,
                                             !.total_afjp_burned = @ + a]
             /\ burn_afjp_events' # burn_afjp_events
             /\ UNCHANGED <<token_caps, juv_caps, discount_system, user_discount,
                            pool, staker, vestVars, now>>]_vars

(* 100 AFJP converted at rate 10 gave 1000 JUVENTUD. *)
C3_Witness ==
    /\ last.op = "burn_afjp_for_juventud"
    /\ last.amount = 100
    /\ juv_info.exchange_rate = 10
    /\ juv_balance[last.caller] = 1000
    /\ juv_info.total_supply = 1000
    /\ token_info.burned_amount = 100

----------------------------------------------------------------------------
(* Claims about the staking pool, checked under SpecRate *)

StakingPool == pool[get_admin_address]

(* C4: stake_tokens(h, a) immediately followed by unstake_tokens(h, a) at the
   same timestamp leaves calculate_rewards(h) = 0 and h's balance at its value
   before the stake. *)
C4_StakeUnstakeRoundTrip ==
    [][\A h \in Holders :
          (/\ last.op = "stake_tokens" /\ last.caller = h
           /\ last'.op = "unstake_tokens" /\ last'.caller = h
           /\ last'.amount = last.amount
           /\ now' = now)
          => (/\ calculate_rewards(h)' = 0
              /\ coin_balance'[h] = last.bal0)]_vars

(* Scenario B: a staked 1000 at t = 0 and b staked 1000 one TimeStep later,
   nobody else stakes, nothing was claimed, and two TimeSteps have passed. *)
ScenarioB(a, b) ==
    /\ a # b
    /\ StakingPool.reward_rate_per_second = ScenarioRate
    /\ StakingPool.total_staked = 2000
    /\ StakingPool.total_rewards_distributed = 0
    /\ staker[a].exists /\ staker[a].staked_amount = 1000
    /\ staker[a].last_stake_time = 0
    /\ staker[b].exists /\ staker[b].staked_amount = 1000
    /\ staker[b].last_stake_time = TimeStep
    /\ \A h \in Holders \ {a, b} : ~staker[h].exists
    /\ now = 2 * TimeStep

(* C5: in scenario B the reward of [0, TimeStep) goes to a alone, the reward
   of [TimeStep, 2 TimeStep) is split equally, and the two pending rewards add
   up to the reward emitted, reward_rate_per_second * elapsed seconds. *)
C5_ProRataAttribution ==
    \A a \in Holders \ {get_admin_address}, b \in Holders \ {get_admin_address} :
        ScenarioB(a, b) =>
            /\ calculate_rewards(a) + calculate_rewards(b) = ScenarioRate * now
            /\ calculate_rewards(b) = (ScenarioRate * TimeStep) \div 2
            /\ calculate_rewards(a) = ScenarioRate * TimeStep + (ScenarioRate * TimeStep) \div 2

(* Scenario A: a staked 1000 at t = 0 and is the only staker. *)
ScenarioA(a) ==
    /\ StakingPool.reward_rate_per_second = ScenarioRate
    /\ StakingPool.total_staked = 1000
    /\ StakingPool.total_rewards_distributed = 0
    /\ staker[a].exists /\ staker[a].staked_amount = 1000
    /\ staker[a].last_stake_time = 0
    /\ staker[a].user_reward_per_token_paid = 0
    /\ \A h \in Holders \ {a} : ~staker[h].exists

(* C6: a single staker holding the whole pool accrues elapsed seconds *
   reward_rate_per_second whatever the stake: 10000 at t = 100 with the rate
   at 100. *)
C6_SingleStakerFlatRate ==
    \A a \in Holders \ {get_admin_address} :
        ScenarioA(a) => calculate_rewards(a) = now * ScenarioRate

(* What a stake or unstake step credits to h's balance beyond the principal
   it moves. *)
RewardCredited(h) ==
    IF last'.op = "stake_tokens"
    THEN coin_balance'[h] - (coin_balance[h] - last'.amount)
    ELSE IF coin_balance'[h] >= coin_balance[h] + last'.amount
         THEN coin_balance'[h] - coin_balance[h] - last'.amount
         ELSE coin_balance'[h] - coin_balance[h]

(* C7: a stake or unstake by a holder with pending reward r > 0 does not
   discard r: what was credited, total_rewards_claimed and the pending reward
   together are not less after the step than before. *)
C7_PendingRewardKept ==
    [][\A h \in Holders :
          (/\ last'.op \in {"stake_tokens", "unstake_tokens"}
           /\ last'.caller = h
           /\ calculate_rewards(h) > 0)
          => RewardCredited(h) + staker'[h].total_rewards_claimed + calculate_rewards(h)'
                 >= staker[h].total_rewards_claimed + calculate_rewards(h)]_vars

(* C8: in every state calculate_rewards(h) is the reward_amount claim_rewards(h)
   would compute at that instant, and a committed claim records exactly that
   value in its event and adds it to total_rewards_claimed. *)
C8_CalculateEqualsClaim ==
    /\ \A h \in Holders : staker[h].exists => calculate_rewards(h) = claim_reward_amount(h)
    /\ [][/\ \A h \in Holders :
                 staker'[h].exists => calculate_rewards(h)' = claim_reward_amount(h)'
          /\ last'.op = "claim_rewards" =>
                 LET h == last'.caller IN
                 /\ calculate_rewards(h) > 0
                 /\ last'.amount = calculate_rewards(h)
                 /\ staker'[h].total_rewards_claimed =
                        staker[h].total_rewards_claimed + calculate_rewards(h)]_vars

(* A claim of a positive reward has just committed, made after time had
   passed since the pool was last updated. *)
C8_Witness ==
    /\ last.op = "claim_rewards"
    /\ last.amount > 0
    /\ staker[last.caller].total_rewards_claimed = last.amount
    /\ StakingPool.last_update_time = now
    /\ now > staker[last.caller].last_stake_time

(* C9: a committed claim_rewards(h) credits the pending amount to h's token
   balance, adds it to total_rewards_claimed and total_rewards_distributed and
   sets user_reward_per_token_paid to the accumulator, so that a second claim
   at the same timestamp aborts with E_NO_REWARDS. *)
C9_ClaimPaysOnce ==
    [][\A h \in Holders :
          (last'.op = "claim_rewards" /\ last'.caller = h) =>
              LET r == last'.amount IN
              /\ r > 0
              /\ coin_balance'[h] = coin_balance[h] + r
              /\ staker'[h].total_rewards_claimed = staker[h].total_rewards_claimed + r
              /\ StakingPool'.total_rewards_distributed =
                     StakingPool.total_rewards_distributed + r
              /\ staker'[h].user_reward_per_token_paid =
                     StakingPool'.accumulated_reward_per_token
              /\ claim_rewards_abort(h)' = "E_NO_REWARDS"]_vars

PaidWithinAccumulator ==
    \A h \in Holders :
        staker[h].user_reward_per_token_paid <= StakingPool.accumulated_reward_per_token

(* C10: accumulated_reward_per_token never decreases, whatever is called and
   however time passes, and no staker's user_reward_per_token_paid exceeds it. *)
C10_AccumulatorMonotone ==
    /\ PaidWithinAccumulator
    /\ [][/\ StakingPool'.accumulated_reward_per_token
                 >= StakingPool.accumulated_reward_per_token
          /\ PaidWithinAccumulator']_vars

(* The accumulator has grown twice and the stakers' checkpoints lie at
   different points below it. *)
C10_Witness ==
    /\ StakingPool.accumulated_reward_per_token = 2 * TimeStep * ScenarioRate
    /\ \E a \in Holders, b \in Holders :
           /\ staker[a].exists /\ staker[b].exists
           /\ staker[a].user_reward_per_token_paid = 0
           /\ staker[b].user_reward_per_token_paid = StakingPool.accumulated_reward_per_token

(* C11: in every state, so after every completed stake_tokens, unstake_tokens
   and claim_rewards, total_staked of the pool is the sum of staked_amount
   over all StakerInfo resources. *)
C11_TotalStakedIsSum ==
    StakingPool.total_staked =
        SumOver([h \in Holders |-> staker[h].staked_amount], Holders)

(* An unstake has just committed while another holder's stake remains. *)
C11_Witness ==
    /\ last.op = "unstake_tokens"
    /\ StakingPool.total_staked = 1000
    /\ staker[last.caller].exists /\ staker[last.caller].staked_amount = 0
    /\ \E h \in Holders \ {last.caller} : staker[h].staked_amount = 1000

----------------------------------------------------------------------------
(* Claims about the vesting pool, checked under SpecVesting.  The module
   stores no schedule: a schedule is known by its ScheduleCreatedEvent, and
   what has been released to a beneficiary by total_released of the
   beneficiary's latest TokensReleasedEvent. *)

Schedules == {schedule_created_events[i] : i \in 1..Len(schedule_created_events)}

released_amount(beneficiary) ==
    LET I == {i \in 1..Len(tokens_released_events) :
                  tokens_released_events[i].beneficiary = beneficiary}
    IN IF I = {} THEN 0
       ELSE tokens_released_events[CHOOSE i \in I : \A j \in I : j <= i].total_released

ReleasedWithinVested ==
    \A e \in Schedules :
        /\ 0 <= released_amount(e.beneficiary)
        /\ released_amount(e.beneficiary) <= calculate_vested_amount(e.beneficiary)
        /\ calculate_vested_amount(e.beneficiary) <= e.amount

(* C12: in every reachable state and for every schedule, 0 <= released_amount
   <= vested amount now <= total amount, and the vested amount never decreases
   from one state to the next; nothing is released before it has vested or
   twice. *)
C12_ReleasedWithinVested ==
    /\ ReleasedWithinVested
    /\ [][/\ ReleasedWithinVested'
          /\ \A b \in Holders :
                 /\ calculate_vested_amount(b)' >= calculate_vested_amount(b)
                 /\ released_amount(b)' >= released_amount(b)]_vars

(* A schedule created at t = 0 is past its cliff and its beneficiary has
   called release_vested_tokens after the cliff. *)
C12_Witness ==
    /\ last.op = "release_vested_tokens"
    /\ \E e \in Schedules :
           /\ e.start_time = 0 /\ e.amount = 5000
           /\ e.beneficiary = last.caller
           /\ now >= e.cliff_time
           /\ tokens_released_events[Len(tokens_released_events)].timestamp >= e.cliff_time

(* The schedule of a beneficiary who has exactly one. *)
OnlySchedule(e) ==
    /\ e \in Schedules
    /\ Len(schedule_created_events) = 1

(* The release curve of a schedule: nothing before the cliff, everything from
   the end on, and in between the total in proportion to the time since start.
   The clock of SpecVesting shows whole years, so t - start and end - start
   are taken in years before multiplying. *)
linear_vested(e, t) ==
    IF t < e.cliff_time THEN 0
    ELSE IF t >= e.end_time THEN e.amount
    ELSE (e.amount * ((t - e.start_time) \div CLIFF_DURATION_SECONDS))
             \div ((e.end_time - e.start_time) \div CLIFF_DURATION_SECONDS)

(* C13: the vested amount of a schedule at time t is 0 before the cliff, the
   total amount from the end on, and total * (t - start) / (end - start)
   truncated in between, with cliff = start + 1 year and end = start + 5
   years. *)
C13_VestedAmountCurve ==
    \A e \in Schedules :
        OnlySchedule(e) =>
            /\ e.cliff_time = e.start_time + CLIFF_DURATION_SECONDS
            /\ e.end_time = e.start_time + VESTING_DURATION_SECONDS
            /\ calculate_vested_amount(e.beneficiary) = linear_vested(e, now)

(* C14: a committed release_vested_tokens moves exactly vested amount now minus
   released_amount from the escrow account to the beneficiary and adds it to
   released_amount, and the call aborts when that amount is 0 (before the
   cliff, and after everything was released). *)
C14_ReleaseExactlyVested ==
    [][\A e \in Schedules :
          (/\ OnlySchedule(e)
           /\ last'.op = "release_vested_tokens"
           /\ last'.caller = e.beneficiary
           /\ tokens_released_events' # tokens_released_events)
          => LET b == e.beneficiary
                 releasable == linear_vested(e, now) - released_amount(b)
             IN /\ releasable > 0
                /\ coin_balance'[b] = coin_balance[b] + releasable
                /\ coin_balance'[get_admin_address] =
                       coin_balance[get_admin_address] - releasable
                /\ released_amount(b)' = released_amount(b) + releasable]_vars

(* C15: a committed create_vesting_schedule(creator, beneficiary, amount) has
   amount > 0 and balance(creator) >= amount, takes amount from the creator
   into the escrow account, adds amount to total_vested and 1 to
   schedule_count, leaves total_released alone, and stores a schedule that
   get_vesting_info(beneficiary) and has_vesting_schedule(beneficiary) report. *)
C15_CreateStoresSchedule ==
    [][(/\ last'.op = "create_vesting_schedule"
        /\ schedule_created_events' # schedule_created_events)
       => LET c == last'.caller
              b == last'.to
              n == last'.amount
              P == vesting_pool[get_admin_address]
          IN /\ n > 0
             /\ coin_balance[c] >= n
             /\ coin_balance' = coin_transfer(coin_balance, c, get_admin_address, n)
             /\ vesting_pool'[get_admin_address] =
                    [P EXCEPT !.total_vested = @ + n, !.schedule_count = @ + 1]
             /\ has_vesting_schedule(b)'
             /\ get_vesting_info(b)'[1] = n
             /\ get_vesting_info(b)'[2] = 0]_vars

(* C16: a revoke by the stored admin of a schedule that is not revoked, before
   its end, commits (returning total amount minus released_amount to the
   admin's account), and a schedule that was revoked or fully released is
   terminal: a later release aborts and released_amount stays as it is. *)
C16_RevokeIsTerminal ==
    [][\A e \in Schedules :
          /\ now < e.end_time =>
                 revoke_vesting_abort(vesting_pool[get_admin_address].admin,
                                      e.beneficiary) = "OK"
          /\ released_amount(e.beneficiary) = e.amount =>
                 /\ release_vested_tokens_abort(e.beneficiary) # "OK"
                 /\ released_amount(e.beneficiary)' = released_amount(e.beneficiary)]_vars

----------------------------------------------------------------------------
(* Claims about initialization and authority, checked under SpecAuthority *)

InitOnce ==
    /\ token_caps # {} =>
           \A a \in Holders : token_initialize_abort(a) = "E_ALREADY_INITIALIZED"
    /\ (\E h \in Holders : pool[h].exists) =>
           \A a \in Holders : staking_initialize_abort(a) = "E_ALREADY_INITIALIZED"
    /\ (\E h \in Holders : vesting_pool[h].exists) =>
           \A a \in Holders : vesting_initialize_abort(a) = "E_ALREADY_INITIALIZED"

AdminKept ==
    /\ token_caps # {} => token_info'.admin = token_info.admin
    /\ \A h \in Holders : pool[h].exists => pool'[h].admin = pool[h].admin
    /\ \A h \in Holders :
           vesting_pool[h].exists => vesting_pool'[h].admin = vesting_pool[h].admin

(* C17: once the token, the staking pool or the vesting pool has been
   initialized, every further initialize of it, by the same or by another
   signer, aborts with E_ALREADY_INITIALIZED, and no step changes a stored
   admin. *)
C17_InitializeOnce ==
    [][InitOnce' /\ AdminKept]_vars

(* C18: with the Juventud token and the staking pool initialized, an
   update_exchange_rate or an add_rewards by a signer other than the stored
   admin aborts with E_NOT_ADMIN (Unauthorized); an aborted call changes
   nothing. *)
C18_NonAdminUnauthorized ==
    /\ get_admin_address \in juv_caps =>
           \A caller \in Holders \ {juv_info.admin}, r \in Rates :
               update_exchange_rate_abort(caller, r) = "E_NOT_ADMIN"
    /\ StakingPool.exists =>
           \A caller \in Holders \ {StakingPool.admin}, n \in StakeAmounts :
               add_rewards_abort(caller, n) = "E_NOT_ADMIN"

----------------------------------------------------------------------------
(* Claims about the exchange rate, checked under Spec *)

JuvInitialized == get_admin_address \in juv_caps

RatePositive ==
    JuvInitialized =>
        /\ juv_info.exchange_rate > 0
        /\ update_exchange_rate_abort(juv_info.admin, 0) = "E_INVALID_AMOUNT"

(* C19: once the Juventud token is initialized its exchange rate is > 0 in
   every state: initialize stores AFJP_TO_JUVENTUD_RATE = 10, an
   update_exchange_rate to 0 aborts, and only a committed update_exchange_rate
   changes the rate. *)
C19_RatePositive ==
    /\ RatePositive
    /\ [][/\ RatePositive'
          /\ (~JuvInitialized /\ JuvInitialized') =>
                 juv_info'.exchange_rate = AFJP_TO_JUVENTUD_RATE
          /\ (JuvInitialized /\ juv_info'.exchange_rate # juv_info.exchange_rate) =>
                 /\ last'.op = "update_exchange_rate"
                 /\ last'.amount = juv_info'.exchange_rate]_vars

(* The admin has raised the rate to 20 after a conversion at 10. *)
C19_Witness ==
    /\ last.op = "update_exchange_rate"
    /\ juv_info.exchange_rate = 20
    /\ juv_info.total_supply = 1000

(* C20: the BurnAFJPEvent of a conversion records afjp_amount and
   juventud_received = afjp_amount * the rate in effect at that conversion, the
   events emitted before stay as they were, and a committed
   update_exchange_rate changes the stored rate and nothing else: no event, no
   balance and no counter. *)
C20_RateChangeNotRetroactive ==
    [][/\ SubSeq(burn_afjp_events', 1, Len(burn_afjp_events)) = burn_afjp_events
       /\ burn_afjp_events' # burn_afjp_events =>
              /\ last'.op = "burn_afjp_for_juventud"
              /\ burn_afjp_events' =
                     Append(burn_afjp_events,
                            [user |-> last'.caller, afjp_amount |-> last'.amount,
                             juventud_received |-> last'.amount * juv_info.exchange_rate,
                             timestamp |-> now])
       /\ (JuvInitialized /\ juv_info'.exchange_rate # juv_info.exchange_rate) =>
              /\ juv_info' = [juv_info EXCEPT !.exchange_rate = juv_info'.exchange_rate]
              /\ UNCHANGED <<burn_afjp_events, juv_caps, juv_balance, discount_system,
                             user_discount, tokenVars, stakeVars, vestVars, now>>]_vars

(* A conversion at rate 10, then one at rate 20, then the rate was changed
   again: both events still show the rate of their own conversion. *)
C20_Witness ==
    /\ Len(burn_afjp_events) = 2
    /\ burn_afjp_events[1].juventud_received = burn_afjp_events[1].afjp_amount * 10
    /\ burn_afjp_events[2].juventud_received = burn_afjp_events[2].afjp_amount * 20
    /\ last.op = "update_exchange_rate"
    /\ juv_info.exchange_rate = 10
    /\ juv_info.total_supply =
           burn_afjp_events[1].juventud_received + burn_afjp_events[2].juventud_received

----------------------------------------------------------------------------
(* Claims about the Juventud supply and about rejected calls, checked under
   Spec *)

(* C21: after any sequence of burn_afjp_for_juventud and apply_rental_discount
   calls the JUVENTUD balances sum to TokenInfo.total_supply minus
   TokenInfo.total_burned: a burn for a discount is counted in total_burned. *)
C21_JuventudSupplyConserved ==
    SumOver(juv_balance, Holders) = juv_info.total_supply - juv_info.total_burned

(* C22: with both tokens initialized, a mint by the admin, a burn or a
   transfer of amount 0 and a conversion of less than MIN_BURN_AMOUNT abort
   with E_INVALID_AMOUNT, and a burn, transfer or conversion of more than the
   caller's balance aborts with the insufficient-balance code of its module;
   an aborted call changes nothing. *)
C22_RejectedWithSpecificKind ==
    (Initialized /\ JuvInitialized) =>
        \A caller \in Holders, to \in Holders :
            /\ mint_abort(token_info.admin, to, 0) = "E_INVALID_AMOUNT"
            /\ burn_abort(caller, 0) = "E_INVALID_AMOUNT"
            /\ transfer_abort(caller, to, 0) = "E_INVALID_AMOUNT"
            /\ \A n \in 0..(MIN_BURN_AMOUNT - 1) :
                   burn_afjp_for_juventud_abort(caller, n) = "E_INVALID_AMOUNT"
            /\ \A n \in LedgerAmounts :
                   (n > 0 /\ coin_balance[caller] < n) =>
                       /\ burn_abort(caller, n) = "E_INSUFFICIENT_BALANCE"
                       /\ transfer_abort(caller, to, n) = "E_INSUFFICIENT_BALANCE"
                       /\ burn_afjp_for_juventud_abort(caller, n) =
                              "E_INSUFFICIENT_AFJP_BALANCE"

(* A holder with 100 AFJP, for whom a burn of 200 is rejected and a burn of
   100 is not, next to a holder with nothing. *)
C22_Witness ==
    /\ Initialized /\ JuvInitialized
    /\ coin_balance[USER1] = 100
    /\ coin_balance[USER2] = 0
    /\ burn_abort(USER1, 200) = "E_INSUFFICIENT_BALANCE"
    /\ burn_abort(USER1, 100) = "OK"
    /\ transfer_abort(USER2, USER1, 100) = "E_INSUFFICIENT_BALANCE"

----------------------------------------------------------------------------
(* Claims about the reward rate, checked under SpecStaking *)

(* C23: a committed add_rewards runs update_pool_rewards before it changes the
   rate: every staker's calculate_rewards is the same right after the call as
   right before it, and last_update_time is now afterwards. *)
C23_AddRewardsUpdatesFirst ==
    [][(/\ last'.op = "add_rewards"
        /\ last'.caller = get_admin_address
        /\ last' # last)
       => /\ \A h \in Holders : calculate_rewards(h)' = calculate_rewards(h)
          /\ StakingPool'.last_update_time = now]_vars

(* C24: the reward rate of the pool never exceeds the rate of MAX_APY,
   (MAX_APY * REWARD_PRECISION) / (10000 * SECONDS_PER_YEAR), whatever is
   added and whatever is staked, and an add_rewards on a pool with nothing
   staked leaves the rate as it is. *)
C24_RateWithinCeiling ==
    /\ StakingPool.reward_rate_per_second <= MaxRewardRate
    /\ [][/\ StakingPool'.reward_rate_per_second <= MaxRewardRate
          /\ (last'.op = "add_rewards" /\ StakingPool.total_staked = 0) =>
                 StakingPool'.reward_rate_per_second =
                     StakingPool.reward_rate_per_second]_vars

(* The admin has added 100000 to a pool that holds a stake of 1000, which by
   itself would raise the rate by 3. *)
C24_Witness ==
    /\ last.op = "add_rewards"
    /\ last.amount = 100000
    /\ StakingPool.total_staked = 1000
    /\ additional_rate(StakingPool, last.amount) = 3

(* C25: after initialize the pool pays the per-second rate of BASE_APY, which
   is strictly positive, so that a holder who staked at least MIN_STAKE_AMOUNT
   and has kept the stake while time advanced has calculate_rewards > 0 and a
   claim_rewards that commits. *)
C25_StakingEarnsBaseApy ==
    StakingPool.exists =>
        /\ StakingPool.reward_rate_per_second > 0
        /\ \A h \in Holders :
               (/\ staker[h].exists
                /\ staker[h].staked_amount >= MIN_STAKE_AMOUNT
                /\ staker[h].total_rewards_claimed = 0
                /\ now >= staker[h].last_stake_time + MaxTime)
               => /\ calculate_rewards(h) > 0
                  /\ claim_rewards_abort(h) = "OK"

----------------------------------------------------------------------------
(* Claims about transfers and events *)

(* C26: a committed transfer(from, to, amount) takes exactly amount from the
   balance of from and adds exactly amount to the balance of to, a transfer to
   oneself leaves the balance as it was, and total_supply, burned_amount and
   every other balance are unchanged. *)
C26_TransferFrame ==
    [][(last'.op = "transfer" /\ last' # last /\ last'.caller # last'.to) =>
          LET from == last'.caller
              to == last'.to
              amount == last'.amount
          IN /\ coin_balance'[from] = coin_balance[from] - amount
             /\ coin_balance'[to] = coin_balance[to] + amount
             /\ \A h \in Holders \ {from, to} : coin_balance'[h] = coin_balance[h]
             /\ UNCHANGED <<token_caps, token_info>>]_vars
    /\ [][(last'.op = "transfer" /\ last' # last /\ last'.caller = last'.to) =>
             UNCHANGED <<coin_balance, token_caps, token_info>>]_vars

(* 0x123 has just transferred 100 of its 200 to 0x456. *)
C26_Witness ==
    /\ last.op = "transfer"
    /\ last.caller = USER1 /\ last.to = USER2 /\ last.amount = 100
    /\ last.bal0 = 200
    /\ coin_balance[USER1] = 100
    /\ coin_balance[USER2] = 100
    /\ token_info.total_supply = 200

StakingOps == {"stake_tokens", "unstake_tokens", "claim_rewards", "add_rewards"}

(* C27: every committed mutating operation appends exactly one event to the
   log and a rejected one appends none; here for the operations of the
   staking pool (stake, unstake, claim_rewards, add_reward_budget), whose
   events are counted by the handles of StakingEvents. *)
C27_OneEventPerOperation ==
    [][/\ (last'.op \in StakingOps /\ last' # last) =>
              StakingEventCount' = StakingEventCount + 1
       /\ StakingEventCount' >= StakingEventCount
       /\ (last' = last /\ pool' = pool /\ staker' = staker) =>
              StakingEventCount' = StakingEventCount]_vars

----------------------------------------------------------------------------
(* Claims about unstaking, the staker count and custody *)

(* unstake(h, amount) is accepted exactly when h has a checkpoint with at
   least amount staked, and is rejected with E_INSUFFICIENT_STAKED otherwise. *)
UnstakeAcceptedIffStaked ==
    \A h \in Holders : \A n \in StakeAmounts \ {0} :
        unstake_tokens_abort(h, n) =
            IF staker[h].exists /\ staker[h].staked_amount >= n
            THEN "OK" ELSE "E_INSUFFICIENT_STAKED"

(* C28: in every reachable state, also after h has unstaked everything and
   staked again, unstake(h, amount) with amount > 0 succeeds if and only if h
   has a checkpoint with staked_amount >= amount and fails with
   InsufficientStaked otherwise; a successful unstake lowers staked_amount and
   total_staked by exactly amount. *)
C28_UnstakeIffStaked ==
    /\ UnstakeAcceptedIffStaked
    /\ [][UnstakeAcceptedIffStaked']_vars
    /\ [][(last'.op = "unstake_tokens" /\ last' # last) =>
              /\ staker'[last'.caller].staked_amount =
                     staker[last'.caller].staked_amount - last'.amount
              /\ StakingPool'.total_staked =
                     StakingPool.total_staked - last'.amount]_vars

(* The holders with something staked. *)
ActiveStakers == {h \in Holders : staker[h].staked_amount > 0}

(* C29: after any sequence of stake and unstake calls total_stakers is the
   number of holders whose staked_amount is greater than 0. *)
C29_StakerCountIsActiveStakers ==
    StakingPool.total_stakers = Cardinality(ActiveStakers)

(* C30: the balance of @afjp_crypto, which holds the custody of the staking
   pool and the escrow of the vesting pool, is at least total_staked plus the
   vested amount not yet released, whatever stakes, unstakes, schedules,
   releases, transfers and burns the holders, the admin included, make. *)
C30_CustodySolvent ==
    get_balance(get_admin_address) >=
        StakingPool.total_staked
        + (vesting_pool[get_admin_address].total_vested
           - vesting_pool[get_admin_address].total_released)

====
